---- MODULE Spec2Model ----
(***************************************************************************)
(* The notebook plot_3d_image_processing.ipynb as a state machine: the      *)
(* Jupyter kernel's namespace is the state, every code cell is an action.   *)
(*                                                                         *)
(* An ndarray is a record [shape, num, den, dtype, owner]: `num` is the     *)
(* C-ordered pixel buffer as integer numerators over the common            *)
(* denominator `den` (pixel value = num[i] / den, exact rationals), and     *)
(* `owner` names the call that allocated the buffer (two arrays share      *)
(* memory iff they have the same owner).                                   *)
(*                                                                         *)
(* Three specifications:                                                   *)
(*   Spec         the exposure cells over every volume of 1..MaxPlanes     *)
(*                one-pixel planes (pixel buffers explicit);               *)
(*   SpecShape    the loading and viewing cells at the shape of the        *)
(*                cells3d sample, (60, 2, 256, 256); the 3.9M-pixel buffer  *)
(*                is not represented (num = << >>), only shapes and views;  *)
(*   SpecDisplay  the helper display(im3d, step) on volumes of 1..MaxGrid   *)
(*                planes and steps 1..MaxStep.                             *)
(***************************************************************************)
EXTENDS Integers, Sequences, FiniteSets, TLC

VARIABLES
    data, gamma_low, gamma_high, equalized_data, clipped_data,  \* global arrays
    vmin, vmax,   \* the percentiles of the clipping cell
    dims,         \* (n_plane, n_row, n_col) once unpacked, else << >>
    defs,         \* the helper functions defined so far
    err,          \* the exception that escaped the last cell, or "none"
    out,          \* what the last cell printed
    fig,          \* what the last cell drew
    slider,       \* the widget made by the last explore_slices call, with
                  \* what its callback last drew and raised
    loaded,       \* history: data as the load cell made it
    im3d, step    \* SpecDisplay: the arguments of display

vars == <<data, gamma_low, gamma_high, equalized_data, clipped_data,
          vmin, vmax, dims, defs, err, out, fig, slider, loaded, im3d, step>>

----------------------------------------------------------------------------
(* Bounds of the model.                                                    *)

\* Spec: a volume has 1..MaxPlanes planes, of one pixel each (the exposure
\* cells work on the flattened buffer; the layout within a plane plays no part).
MaxPlanes == 3
\* Spec: pixel values are the squares (k / Levels)^2, k in 0..Levels, so that
\* the power laws x^0.5 and x^1.5 are exact rationals.
Levels == 2
\* SpecDisplay: display is applied to volumes of 1..MaxGrid planes ...
MaxGrid == 62
\* ... with step in 1..MaxStep.
MaxStep == 3

----------------------------------------------------------------------------
(* Arithmetic helpers.                                                     *)

RECURSIVE SumSeq(_)
SumSeq(s) == IF s = << >> THEN 0 ELSE Head(s) + SumSeq(Tail(s))

RECURSIVE Prod(_)
Prod(s) == IF s = << >> THEN 1 ELSE Head(s) * Prod(Tail(s))

RECURSIVE Pow(_, _)
Pow(b, e) == IF e = 0 THEN 1 ELSE b * Pow(b, e - 1)

MinOf(S) == CHOOSE x \in S : \A y \in S : x <= y
MaxOf(S) == CHOOSE x \in S : \A y \in S : y <= x
Range(s) == {s[i] : i \in 1..Len(s)}

\* The exact square root of a perfect square (the model's pixel values are
\* perfect squares; see Levels).
Isqrt(n) == CHOOSE r \in 0..n : r * r = n

\* Rational scalars are records [num, den] with den > 0; Norm is the scalar in
\* lowest terms, and comparisons cross-multiply the lowest terms.
RECURSIVE GCD(_, _)
GCD(a, b) == IF b = 0 THEN a ELSE GCD(b, a % b)
Abs(n) == IF n < 0 THEN -n ELSE n
Norm(p) == LET g == GCD(Abs(p.num), p.den)
           IN [num |-> p.num \div g, den |-> p.den \div g]
Leq(p, q) == Norm(p).num * Norm(q).den <= Norm(q).num * Norm(p).den
Lt(p, q) == Norm(p).num * Norm(q).den < Norm(q).num * Norm(p).den

\* str(n) for n >= 0: the decimal digits, most significant first.
Digit(d) == <<"0", "1", "2", "3", "4", "5", "6", "7", "8", "9">>[d + 1]
RECURSIVE Str(_)
Str(n) == IF n < 10 THEN <<Digit(n)>> ELSE Str(n \div 10) \o <<Digit(n % 10)>>

----------------------------------------------------------------------------
(* ndarrays.                                                               *)

Undefined == [shape |-> << >>, num |-> << >>, den |-> 1, dtype |-> "none",
              owner |-> <<"undefined", 0>>]
IsDefined(a) == a.owner[1] # "undefined"
NoScalar == [num |-> 0, den |-> 0]

Size(a) == Prod(a.shape)
Pixel(a, i) == [num |-> a.num[i], den |-> a.den]
ArrMin(a) == [num |-> MinOf(Range(a.num)), den |-> a.den]
ArrMax(a) == [num |-> MaxOf(Range(a.num)), den |-> a.den]
\* mean(a) * Size(a), as a rational.
ArrSum(a) == [num |-> SumSeq(a.num), den |-> a.den]
SharesMemory(a, b) == a.owner = b.owner

\* An index key is a sequence of Slice (":") and Idx(n) entries.
Slice == [all |-> TRUE, i |-> 0]
Idx(n) == [all |-> FALSE, i |-> n]

\* Basic indexing raises IndexError for too many indices or an integer out of
\* the bounds of its axis (the notebook uses no negative index).
InBounds(shape, key) ==
    /\ Len(key) <= Len(shape)
    /\ \A k \in 1..Len(key) : key[k].all \/ key[k].i \in 0..(shape[k] - 1)

RECURSIVE ViewShape(_, _)
ViewShape(shape, key) ==
    IF shape = << >> THEN << >>
    ELSE IF key = << >> THEN shape
    ELSE IF Head(key).all
         THEN <<Head(shape)>> \o ViewShape(Tail(shape), Tail(key))
         ELSE ViewShape(Tail(shape), Tail(key))

\* a[key]: a view into a's buffer (no copy): an integer index drops its axis.
View(a, key) == [base |-> a.owner, index |-> key, shape |-> ViewShape(a.shape, key)]
NoView == [base |-> <<"none", 0>>, index |-> << >>, shape |-> << >>]

\* len(a): the length of the first axis.
PyLen(a) == a.shape[1]

----------------------------------------------------------------------------
(* Library calls, by what scikit-image / numpy compute (exact arithmetic).  *)

\* skimage.data.cells3d(): the sample, uint16, axes (z, c, y, x).
Cells3dShape == <<60, 2, 256, 256>>
cells3d == [shape |-> Cells3dShape, num |-> << >>, den |-> 1, dtype |-> "uint16",
            owner |-> <<"cells3d", 0>>]

\* cells3d()[:, 1, :, :] then util.img_as_float: a new float64 array of the
\* view's shape, every uint16 value divided by 65535.
\* A plausible slip: the channel axis kept.
NucleiKeyAllSlices == <<Slice, Slice, Slice, Slice>>
NucleiKey == <<Slice, Idx(1), Slice, Slice>>
img_as_float(a, key) ==
    [shape |-> ViewShape(a.shape, key), num |-> a.num, den |-> 65535 * a.den,
     dtype |-> "float64", owner |-> <<"img_as_float", 0>>]

\* A plausible slip: the exponent inverted, 2 - gamma for gamma.
adjust_gamma_inverted(image, g2) ==
    [shape |-> image.shape,
     num |-> [i \in 1..Len(image.num) |-> Pow(Isqrt(image.num[i]), 4 - g2)],
     den |-> Pow(Isqrt(image.den), 4 - g2),
     dtype |-> image.dtype, owner |-> <<"adjust_gamma", g2>>]

\* A plausible slip: the power taken in place, in the buffer of the input.
adjust_gamma_inplace(image, g2) ==
    [shape |-> image.shape,
     num |-> [i \in 1..Len(image.num) |-> Pow(Isqrt(image.num[i]), g2)],
     den |-> Pow(Isqrt(image.den), g2),
     dtype |-> image.dtype, owner |-> image.owner]

\* exposure.adjust_gamma(image, gamma) with gamma = g2 / 2, gain = 1: a float
\* image has scale 1, so out = image ** gamma, a new array.
adjust_gamma(image, g2) ==
    [shape |-> image.shape,
     num |-> [i \in 1..Len(image.num) |-> Pow(Isqrt(image.num[i]), g2)],
     den |-> Pow(Isqrt(image.den), g2),
     dtype |-> image.dtype, owner |-> <<"adjust_gamma", g2>>]

\* The default number of bins of exposure.equalize_hist.
nbins == 256

\* exposure.equalize_hist(image) is np.histogram over nbins equal bins, the
\* cumulative counts divided by their total, then np.interp of every pixel on
\* (bin centers, cdf).
\* The histogram's range is min..max, or min - 0.5..max + 0.5 when they
\* coincide. Positions are in units of 1 / (2 * den): HistLo2 is the lower
\* edge and HistW the width of the range.
HistLo2(image) ==
    LET mn == MinOf(Range(image.num))
        mx == MaxOf(Range(image.num))
    IN IF mn = mx THEN 2 * mn - image.den ELSE 2 * mn
HistW(image) ==
    LET mn == MinOf(Range(image.num))
        mx == MaxOf(Range(image.num))
    IN IF mn = mx THEN 2 * image.den ELSE 2 * (mx - mn)
\* The bin of value x; the last bin includes the upper edge.
Bin(image, x) ==
    LET b == (nbins * (2 * x - HistLo2(image))) \div HistW(image)
    IN IF b > nbins - 1 THEN nbins - 1 ELSE b
\* hist.cumsum()[j]: the number of pixels in bins 0..j.
Cum(image, j) == Cardinality({i \in 1..Len(image.num) : Bin(image, image.num[i]) <= j})
\* np.interp(x, bin_centers, cumsum), times 2 * HistW: with positions scaled
\* by 2 * nbins the center of bin j is at (2 * j + 1) * HistW; left of the
\* first center and right of the last the end value is held.
Interp(image, x) ==
    LET W == HistW(image)
        X == 2 * nbins * (2 * x - HistLo2(image))
        C(j) == (2 * j + 1) * W
    IN IF X <= C(0) THEN Cum(image, 0) * 2 * W
       ELSE IF X >= C(nbins - 1) THEN Cum(image, nbins - 1) * 2 * W
       ELSE LET j0 == (X - C(0)) \div (2 * W)
            IN Cum(image, j0) * 2 * W
               + (Cum(image, j0 + 1) - Cum(image, j0)) * (X - C(j0))

\* A plausible slip: the cumulative counts are not divided by their total.
equalize_hist_unnormalised(image) ==
    [shape |-> image.shape,
     num |-> [i \in 1..Len(image.num) |-> Interp(image, image.num[i])],
     den |-> 2 * HistW(image),
     dtype |-> "float64", owner |-> <<"equalize_hist", 0>>]

equalize_hist(image) ==
    [shape |-> image.shape,
     num |-> [i \in 1..Len(image.num) |-> Interp(image, image.num[i])],
     den |-> Cum(image, nbins - 1) * 2 * HistW(image),
     dtype |-> "float64", owner |-> <<"equalize_hist", 0>>]

\* np.percentile(a, q) with q = qpm / 10 percent, linear interpolation: the
\* virtual index (n - 1) * q / 100 into the sorted values.
percentile(a, qpm) ==
    LET s == SortSeq(a.num, LAMBDA x, y : x < y)
        n == Len(s)
        pos == (n - 1) * qpm
        lo == pos \div 1000
        r == pos % 1000
        hi == IF lo + 1 < n THEN lo + 1 ELSE lo
    IN [num |-> 1000 * s[lo + 1] + r * (s[hi + 1] - s[lo + 1]), den |-> 1000 * a.den]

\* skimage DTYPE_RANGE of a float type.
DTypeRange == <<-1, 1>>

\* A plausible slip: the image clipped to [lo, hi] and not stretched.
rescale_intensity_clip_only(image, lo, hi, out_dtype) ==
    LET d == image.den
        e == lo.den
        clip(x, a, b) == IF x < a THEN a ELSE IF x > b THEN b ELSE x
    IN [shape |-> image.shape,
        num |-> [i \in 1..Len(image.num) |-> clip(image.num[i] * e, lo.num * d, hi.num * d)],
        den |-> d * e,
        dtype |-> out_dtype, owner |-> <<"rescale_intensity", 0>>]

\* exposure.rescale_intensity(image, in_range=(lo, hi), out_range=<float type>):
\* the output range is the type's (-1, 1), its lower end raised to 0 when
\* lo >= 0; the image is clipped to [lo, hi], then stretched onto the output
\* range (left as clipped when lo = hi). Values in units of
\* 1 / (image.den * lo.den).
rescale_intensity(image, lo, hi, out_dtype) ==
    LET d == image.den
        e == lo.den
        A == lo.num * d
        B == hi.num * d
        omin == IF lo.num >= 0 THEN 0 ELSE DTypeRange[1]
        omax == DTypeRange[2]
        clip(x, a, b) == IF x < a THEN a ELSE IF x > b THEN b ELSE x
        Cl(i) == clip(image.num[i] * e, A, B)
    IN IF A # B
       THEN [shape |-> image.shape,
             num |-> [i \in 1..Len(image.num) |->
                        (Cl(i) - A) * (omax - omin) + omin * (B - A)],
             den |-> B - A,
             dtype |-> out_dtype, owner |-> <<"rescale_intensity", 0>>]
       ELSE [shape |-> image.shape,
             num |-> [i \in 1..Len(image.num) |-> clip(Cl(i), omin * d * e, omax * d * e)],
             den |-> d * e,
             dtype |-> out_dtype, owner |-> <<"rescale_intensity", 0>>]

----------------------------------------------------------------------------
(* Figures.                                                                *)

\* A drawn image: the array view handed to ax.imshow, and the axes title.
Panel(view, title) == [image |-> view, title |-> title]
Blank == Panel(NoView, << >>)

NoFig == [kind |-> "none", panels |-> << >>, hists |-> << >>, axes |-> << >>,
          lims |-> <<NoScalar, NoScalar>>, cube |-> << >>, marker |-> << >>]

\* matplotlib's imshow takes (M, N), (M, N, 3) or (M, N, 4) and raises
\* TypeError("Invalid shape ... for image data") for any other shape.
ImageShapeOk(shape) ==
    \/ Len(shape) = 2
    \/ Len(shape) = 3 /\ shape[3] \in {3, 4}

RECURSIVE ShapeStr(_)
ShapeStr(shape) ==
    IF shape = << >> THEN << >>
    ELSE Str(Head(shape)) \o (IF Len(shape) > 1 THEN <<", ">> ELSE << >>)
         \o ShapeStr(Tail(shape))
InvalidShapeMsg(shape) ==
    <<"Invalid shape (">> \o ShapeStr(shape) \o <<") for image data">>

\* plt.subplots(nrows=5, ncols=6) of display.
NRows == 5
NCols == 6

\* A plausible slip: n // step planes, the last one lost when step does not
\* divide n.
StridedFloor(n, st) == [k \in 1..(n \div st) |-> (k - 1) * st]
\* im3d[::step]: the indices of the planes taken, 0, step, 2 * step, ... < n.
Strided(n, st) == [k \in 1..((n + st - 1) \div st) |-> (k - 1) * st]

\* display(im3d, step): zip pairs axes.flatten() (row-major) with the planes of
\* im3d[::step] and stops at the shorter; the axes left over stay empty.
display(a, st) ==
    LET planes == Strided(PyLen(a), st)
        m == IF Len(planes) < NRows * NCols THEN Len(planes) ELSE NRows * NCols
        flat(r, c) == (r - 1) * NCols + c
    IN [NoFig EXCEPT
          !.kind = "grid",
          !.lims = <<ArrMin(a), ArrMax(a)>>,
          !.axes = [r \in 1..NRows |-> [c \in 1..NCols |->
                      IF flat(r, c) <= m
                      THEN Panel(View(a, <<Idx(planes[flat(r, c)])>>), << >>)
                      ELSE Blank]]]

\* A plausible slip: the size of the rows and columns before downsampling.
MarkerScaleFull == <<60, 1024, 1024>>
\* The literal of slice_in_3D that scales the slice marker.
MarkerScale == <<60, 256, 256>>
\* The unit cube Z and the unit square verts of slice_in_3D.
UnitCube == <<<<0, 0, 0>>, <<1, 0, 0>>, <<1, 1, 0>>, <<0, 1, 0>>,
              <<0, 0, 1>>, <<1, 0, 1>>, <<1, 1, 1>>, <<0, 1, 1>>>>
UnitSquare == <<<<0, 0, 0>>, <<0, 0, 1>>, <<0, 1, 1>>, <<0, 1, 0>>>>
Times(v, w) == [k \in 1..Len(v) |-> v[k] * w[k]]
Plus(v, w) == [k \in 1..Len(v) |-> v[k] + w[k]]

\* slice_in_3D(ax, i): the cube is Z * data.shape, with data the GLOBAL array;
\* the marker is verts * (60, 256, 256) + [i, 0, 0].
CubeOf(shape) == [k \in 1..Len(UnitCube) |-> Times(UnitCube[k], shape)]
MarkerOf(i) == [k \in 1..Len(UnitSquare) |->
                  Plus(Times(UnitSquare[k], MarkerScale), <<i, 0, 0>>)]

\* display_slice(plane) of explore_slices(vol): show_plane of vol[plane]
\* titled "Plane {plane}", then slice_in_3D(ax_3D, plane).
\* g is the global data at the time of the call.
display_slice(vol, plane, g) ==
    [NoFig EXCEPT
       !.kind = "slice",
       !.panels = <<Panel(View(vol, <<Idx(plane)>>), <<"Plane ">> \o Str(plane))>>,
       !.cube = CubeOf(g.shape),
       !.marker = MarkerOf(plane)]

\* The IntSlider of interact(plane=(0, N - 1)) with the default plane=34: the
\* widget holds its value within [min, max].
DefaultPlane == 34
\* A plausible slip: interact(plane=(0, N)).
IntSliderOffByOne(vol, lo, hi, v) ==
    [vol |-> vol, min |-> lo, max |-> hi + 1,
     value |-> IF v > hi + 1 THEN hi + 1 ELSE IF v < lo THEN lo ELSE v,
     shown |-> NoFig, err |-> "none"]
NoSlider == [vol |-> Undefined, min |-> 0, max |-> -1, value |-> 0,
             shown |-> NoFig, err |-> "none"]
IntSlider(vol, lo, hi, v) ==
    [vol |-> vol, min |-> lo, max |-> hi,
     value |-> IF v > hi THEN hi ELSE IF v < lo THEN lo ELSE v,
     shown |-> NoFig, err |-> "none"]

\* A run of show_plane(ax, arr[key], title=...) calls, reqs a sequence of
\* [arr, key, title]: the panels drawn until one raises, and what it raised.
RECURSIVE Draw(_)
Draw(reqs) ==
    IF reqs = << >> THEN [panels |-> << >>, err |-> "none"]
    ELSE LET q == Head(reqs)
         IN IF ~IsDefined(q.arr) THEN [panels |-> << >>, err |-> "NameError"]
            ELSE IF ~InBounds(q.arr.shape, q.key)
                 THEN [panels |-> << >>, err |-> "IndexError"]
            ELSE IF ~ImageShapeOk(ViewShape(q.arr.shape, q.key))
                 THEN [panels |-> << >>, err |-> "TypeError"]
            ELSE LET rest == Draw(Tail(reqs))
                 IN [panels |-> <<Panel(View(q.arr, q.key), q.title)>> \o rest.panels,
                     err |-> rest.err]
Req(arr, key, title) == [arr |-> arr, key |-> key, title |-> title]

----------------------------------------------------------------------------
(* The cells.                                                              *)

Arrays == <<data, gamma_low, gamma_high, equalized_data, clipped_data>>

\* data = util.img_as_float(cells3d()[:, 1, :, :]) and the prints of its
\* shape and dtype. (The cell also prints the value range and three spacing
\* vectors, which nothing reads afterwards; they are not modelled.)
LoadCell ==
    /\ IF InBounds(cells3d.shape, NucleiKey)
       THEN /\ data' = img_as_float(cells3d, NucleiKey)
            /\ loaded' = data'
            /\ out' = <<"shape: (">> \o ShapeStr(data'.shape) \o <<")">>
                        \o <<"dtype: ", data'.dtype>>
            /\ err' = "none"
       ELSE /\ UNCHANGED <<data, loaded>>
            /\ out' = << >>
            /\ err' = "IndexError"
    /\ fig' = NoFig
    /\ UNCHANGED <<gamma_low, gamma_high, equalized_data, clipped_data, vmin, vmax,
                   dims, defs, slider, im3d, step>>

\* A plausible slip: another exception type than the cell catches.
ImshowRaisesValueError(arr) == IF ImageShapeOk(arr.shape) THEN "none" ELSE "ValueError"
\* What io.imshow(arr) raises.
ImshowRaises(arr) == IF ImageShapeOk(arr.shape) THEN "none" ELSE "TypeError"
\* try: ... except TypeError as e: print(str(e))
Caught == "TypeError"

\* The try / except cell around io.imshow(data, cmap="gray").
ImshowCell ==
    /\ IF ~IsDefined(data)
       THEN err' = "NameError" /\ out' = << >> /\ fig' = NoFig
       ELSE LET raised == ImshowRaises(data)
            IN IF raised = "none"
               THEN /\ err' = "none"
                    /\ out' = << >>
                    /\ fig' = [NoFig EXCEPT !.kind = "imshow",
                                  !.panels = <<Panel(View(data, << >>), << >>)>>]
               ELSE IF raised = Caught
               THEN /\ err' = "none"
                    /\ out' = InvalidShapeMsg(data.shape)
                    /\ fig' = [NoFig EXCEPT !.kind = "imshow"]
               ELSE /\ err' = raised
                    /\ out' = << >>
                    /\ fig' = [NoFig EXCEPT !.kind = "imshow"]
    /\ UNCHANGED <<Arrays, vmin, vmax, dims, defs, slider, loaded, im3d, step>>

\* def show_plane; (n_plane, n_row, n_col) = data.shape; the three views
\* data[n_plane // 2], data[:, n_row // 2, :], data[:, :, n_col // 2].
ThreeViewsCell ==
    /\ defs' = defs \cup {"show_plane"}
    /\ IF ~IsDefined(data)
       THEN err' = "NameError" /\ fig' = NoFig /\ UNCHANGED dims
       ELSE IF Len(data.shape) # 3
       THEN err' = "ValueError" /\ fig' = NoFig /\ UNCHANGED dims
       ELSE LET n_plane == data.shape[1]
                n_row == data.shape[2]
                n_col == data.shape[3]
                d == Draw(<<Req(data, <<Idx(n_plane \div 2)>>,
                                <<"Plane = ">> \o Str(n_plane \div 2)),
                            Req(data, <<Slice, Idx(n_row \div 2), Slice>>,
                                <<"Row = ">> \o Str(n_row \div 2)),
                            Req(data, <<Slice, Slice, Idx(n_col \div 2)>>,
                                <<"Column = ">> \o Str(n_col \div 2))>>)
            IN /\ dims' = data.shape
               /\ fig' = [NoFig EXCEPT !.kind = "views", !.panels = d.panels]
               /\ err' = d.err
    /\ out' = << >>
    /\ UNCHANGED <<Arrays, vmin, vmax, slider, loaded, im3d, step>>

\* The default step of display.
DefaultStep == 2

\* def display; display(data).
DisplayCell ==
    /\ defs' = defs \cup {"display"}
    /\ IF ~IsDefined(data)
       THEN err' = "NameError" /\ fig' = NoFig
       ELSE err' = "none" /\ fig' = display(data, DefaultStep)
    /\ out' = << >>
    /\ UNCHANGED <<Arrays, vmin, vmax, dims, slider, loaded, im3d, step>>

\* One run of the callback display_slice(plane) of explore_slices(vol), with
\* the helpers fs and the global data g as they are when it runs: what it
\* draws and what it raises.
RunCallback(vol, plane, g, fs) ==
    IF "show_plane" \notin fs
    THEN [fig |-> [NoFig EXCEPT !.kind = "slice"], err |-> "NameError"]
    ELSE LET d == Draw(<<Req(vol, <<Idx(plane)>>, << >>)>>)
         IN IF d.err # "none"
            THEN [fig |-> [NoFig EXCEPT !.kind = "slice"], err |-> d.err]
            ELSE IF ~IsDefined(g)
            THEN [fig |-> [NoFig EXCEPT !.kind = "slice"], err |-> "NameError"]
            ELSE IF Len(g.shape) # 3
            THEN [fig |-> [NoFig EXCEPT !.kind = "slice"], err |-> "ValueError"]
            ELSE [fig |-> display_slice(vol, plane, g), err |-> "none"]

\* explore_slices(vol): N = len(vol); interact makes the slider over
\* (0, N - 1) and runs the callback once with its value; fs are the helpers
\* defined when it runs. What the callback raises is shown in the widget's
\* output and does not escape the cell.
Explore(vol, fs) ==
    IF ~IsDefined(vol)
    THEN err' = "NameError" /\ fig' = NoFig /\ UNCHANGED slider
    ELSE LET w == IntSlider(vol, 0, PyLen(vol) - 1, DefaultPlane)
             r == RunCallback(vol, w.value, data, fs)
         IN /\ slider' = [w EXCEPT !.shown = r.fig, !.err = r.err]
            /\ fig' = [NoFig EXCEPT !.kind = "widget"]
            /\ err' = "none"

\* def slice_in_3D; def explore_slices; explore_slices(data).
ExploreCell ==
    /\ defs' = defs \cup {"slice_in_3D", "explore_slices"}
    /\ Explore(data, defs \cup {"slice_in_3D", "explore_slices"})
    /\ out' = << >>
    /\ UNCHANGED <<Arrays, vmin, vmax, dims, loaded, im3d, step>>

\* The user moves the slider to p: the callback runs with the new value.
SliderChange(p) ==
    /\ IsDefined(slider.vol)
    /\ p \in slider.min..slider.max
    /\ p # slider.value
    /\ LET r == RunCallback(slider.vol, p, data, defs)
       IN slider' = [slider EXCEPT !.value = p, !.shown = r.fig, !.err = r.err]
    /\ UNCHANGED <<Arrays, vmin, vmax, dims, defs, err, out, fig, loaded, im3d, step>>

\* gamma_low_val = 0.5 and gamma_high_val = 1.5, in halves.
GammaLowHalves == 1
GammaHighHalves == 3
\* The plane the gamma cell shows.
PlaneShown == 32

\* def plot_hist; gamma_low, gamma_high = adjust_gamma(data, 0.5 / 1.5); then
\* plane 32 of data, gamma_low, gamma_high and their three histograms.
GammaCell ==
    /\ defs' = defs \cup {"plot_hist"}
    /\ IF ~IsDefined(data)
       THEN err' = "NameError" /\ fig' = NoFig /\ UNCHANGED <<gamma_low, gamma_high>>
       ELSE /\ gamma_low' = adjust_gamma(data, GammaLowHalves)
            /\ gamma_high' = adjust_gamma(data, GammaHighHalves)
            /\ IF "show_plane" \notin defs
               THEN err' = "NameError" /\ fig' = [NoFig EXCEPT !.kind = "gamma"]
               ELSE LET d == Draw(<<Req(data, <<Idx(PlaneShown)>>, <<"Original">>),
                                    Req(gamma_low', <<Idx(PlaneShown)>>,
                                        <<"Gamma = ", "0.5">>),
                                    Req(gamma_high', <<Idx(PlaneShown)>>,
                                        <<"Gamma = ", "1.5">>)>>)
                    IN /\ err' = d.err
                       /\ fig' = [NoFig EXCEPT
                                    !.kind = "gamma",
                                    !.panels = d.panels,
                                    !.hists = IF d.err = "none"
                                              THEN <<data.owner, gamma_low'.owner,
                                                     gamma_high'.owner>>
                                              ELSE << >>]
    /\ out' = << >>
    /\ UNCHANGED <<data, equalized_data, clipped_data, vmin, vmax, dims, slider,
                   loaded, im3d, step>>

\* equalized_data = exposure.equalize_hist(data); display(equalized_data).
EqualizeCell ==
    /\ IF ~IsDefined(data)
       THEN err' = "NameError" /\ fig' = NoFig /\ UNCHANGED equalized_data
       ELSE /\ equalized_data' = equalize_hist(data)
            /\ IF "display" \notin defs
               THEN err' = "NameError" /\ fig' = NoFig
               ELSE err' = "none" /\ fig' = display(equalized_data', DefaultStep)
    /\ out' = << >>
    /\ UNCHANGED <<data, gamma_low, gamma_high, clipped_data, vmin, vmax, dims, defs,
                   slider, loaded, im3d, step>>

\* explore_slices(equalized_data).
ExploreEqualizedCell ==
    /\ IF "explore_slices" \notin defs
       THEN err' = "NameError" /\ fig' = NoFig /\ UNCHANGED slider
       ELSE Explore(equalized_data, defs)
    /\ out' = << >>
    /\ UNCHANGED <<Arrays, vmin, vmax, dims, defs, loaded, im3d, step>>

\* The histograms and cumulative distributions of data and equalized_data.
\* (The globals cdf and bins it assigns are read by nothing else; they are
\* not modelled.)
CdfCell ==
    /\ IF "plot_hist" \notin defs \/ ~IsDefined(data) \/ ~IsDefined(equalized_data)
       THEN err' = "NameError" /\ fig' = [NoFig EXCEPT !.kind = "cdf"]
       ELSE /\ err' = "none"
            /\ fig' = [NoFig EXCEPT !.kind = "cdf",
                          !.hists = <<data.owner, equalized_data.owner>>]
    /\ out' = << >>
    /\ UNCHANGED <<Arrays, vmin, vmax, dims, defs, slider, loaded, im3d, step>>

\* q = (0.5, 99.5), in tenths of a percent.
QLow == 5
QHigh == 995

\* A plausible slip: the cells chained, clipping what equalization made.
ClipCellChained ==
    /\ LET src == IF IsDefined(equalized_data) THEN equalized_data ELSE data
       IN /\ vmin' = percentile(src, QLow)
          /\ vmax' = percentile(src, QHigh)
          /\ clipped_data' = rescale_intensity(src, vmin', vmax', "float32")
          /\ err' = "none" /\ fig' = display(clipped_data', DefaultStep)
    /\ out' = << >>
    /\ UNCHANGED <<data, gamma_low, gamma_high, equalized_data, dims, defs, slider,
                   loaded, im3d, step>>

\* vmin, vmax = np.percentile(data, q=(0.5, 99.5)); clipped_data =
\* rescale_intensity(data, in_range=(vmin, vmax), out_range=np.float32);
\* display(clipped_data).
ClipCell ==
    /\ IF ~IsDefined(data)
       THEN err' = "NameError" /\ fig' = NoFig /\ UNCHANGED <<vmin, vmax, clipped_data>>
       ELSE /\ vmin' = percentile(data, QLow)
            /\ vmax' = percentile(data, QHigh)
            /\ clipped_data' = rescale_intensity(data, vmin', vmax', "float32")
            /\ IF "display" \notin defs
               THEN err' = "NameError" /\ fig' = NoFig
               ELSE err' = "none" /\ fig' = display(clipped_data', DefaultStep)
    /\ out' = << >>
    /\ UNCHANGED <<data, gamma_low, gamma_high, equalized_data, dims, defs, slider,
                   loaded, im3d, step>>

\* display(im3d, step) as a call of its own, arguments as the caller chose.
DisplayCall ==
    /\ fig = NoFig
    /\ fig' = display(im3d, step)
    /\ UNCHANGED <<Arrays, vmin, vmax, dims, defs, err, out, slider, loaded, im3d, step>>

----------------------------------------------------------------------------
(* Specifications.                                                         *)

Helpers == {"show_plane", "display", "slice_in_3D", "explore_slices"}

\* The shapes (n_plane, n_row, n_col) within the bound.
Shapes == {<<p, 1, 1>> : p \in 1..MaxPlanes}
PixelValues == {k * k : k \in 0..Levels}
\* The float volumes img_as_float can return within the bounds.
Volumes ==
    UNION {{[shape |-> s, num |-> b, den |-> Levels * Levels, dtype |-> "float64",
             owner |-> <<"img_as_float", 0>>] :
               b \in [1..Prod(s) -> PixelValues]} : s \in Shapes}

\* Spec: the kernel once the load cell and the helper-defining cells have run;
\* the cells below it in any order, any number of times (the slider is moved
\* in SpecShape).
Init ==
    /\ data \in Volumes
    /\ loaded = data
    /\ dims = data.shape
    /\ defs = Helpers
    /\ gamma_low = Undefined /\ gamma_high = Undefined
    /\ equalized_data = Undefined /\ clipped_data = Undefined
    /\ vmin = NoScalar /\ vmax = NoScalar
    /\ err = "none" /\ out = << >> /\ fig = NoFig /\ slider = NoSlider
    /\ im3d = Undefined /\ step = 0

Next ==
    \/ DisplayCell
    \/ ExploreCell
    \/ GammaCell
    \/ EqualizeCell
    \/ ExploreEqualizedCell
    \/ CdfCell
    \/ ClipCell

Spec == Init /\ [][Next]_vars

\* SpecShape: a fresh kernel; the loading and viewing cells, each any number of
\* times, in any order that runs a cell once the names it reads are defined.
InitShape ==
    /\ data = Undefined /\ loaded = Undefined
    /\ dims = << >>
    /\ defs = {}
    /\ gamma_low = Undefined /\ gamma_high = Undefined
    /\ equalized_data = Undefined /\ clipped_data = Undefined
    /\ vmin = NoScalar /\ vmax = NoScalar
    /\ err = "none" /\ out = << >> /\ fig = NoFig /\ slider = NoSlider
    /\ im3d = Undefined /\ step = 0

NextShape ==
    \/ LoadCell
    \/ IsDefined(data) /\ ImshowCell
    \/ IsDefined(data) /\ ThreeViewsCell
    \/ IsDefined(data) /\ "show_plane" \in defs /\ ExploreCell
    \/ \E p \in slider.min..slider.max : SliderChange(p)

SpecShape == InitShape /\ [][NextShape]_vars

\* SpecDisplay: display on a volume of n planes of one pixel each, plane k
\* holding the value k / n.
Ramp(n) == [shape |-> <<n, 1, 1>>, num |-> [i \in 1..n |-> i - 1], den |-> n,
            dtype |-> "float64", owner |-> <<"ramp", n>>]

InitDisplay ==
    /\ im3d \in {Ramp(n) : n \in 1..MaxGrid}
    /\ step \in 1..MaxStep
    /\ data = Undefined /\ loaded = Undefined
    /\ dims = << >>
    /\ defs = Helpers
    /\ gamma_low = Undefined /\ gamma_high = Undefined
    /\ equalized_data = Undefined /\ clipped_data = Undefined
    /\ vmin = NoScalar /\ vmax = NoScalar
    /\ err = "none" /\ out = << >> /\ fig = NoFig /\ slider = NoSlider

NextDisplay == DisplayCall

SpecDisplay == InitDisplay /\ [][NextDisplay]_vars

----------------------------------------------------------------------------
(* Claims.                                                                 *)

Zero == [num |-> 0, den |-> 1]
One == [num |-> 1, den |-> 1]
Pixels(a) == {Pixel(a, i) : i \in 1..Len(a.num)}
\* p - q and p * q, in lowest terms.
Minus(p, q) == LET a == Norm(p)
                   b == Norm(q)
               IN Norm([num |-> a.num * b.den - b.num * a.den, den |-> a.den * b.den])
Mult(p, q) == LET a == Norm(p)
                  b == Norm(q)
              IN Norm([num |-> a.num * b.num, den |-> a.den * b.den])

\* C1, as the specification states it: the extreme values of clipped_data are
\* bounded by the percentiles, vmin <= min(clipped_data) and
\* max(clipped_data) <= vmax.
C1_BoundedByPercentiles ==
    IsDefined(clipped_data) =>
        /\ Leq(vmin, ArrMin(clipped_data))
        /\ Leq(ArrMax(clipped_data), vmax)

\* C1, amended: the values of data are clipped to [vmin, vmax] and that
\* interval is stretched onto [0, 1]. Every value of clipped_data lies in
\* [0, 1]; when vmin < vmax a pixel of data at or below vmin becomes 0, one at
\* or above vmax becomes 1 (so min = 0 and max = 1), and one in between
\* becomes (x - vmin) / (vmax - vmin); when vmin = vmax every value is that
\* percentile.
C1_StretchedOntoUnit ==
    IsDefined(clipped_data) =>
        /\ clipped_data.dtype = "float32"
        /\ \A i \in 1..Len(data.num) :
             LET x == Pixel(data, i)
                 y == Pixel(clipped_data, i)
             IN /\ Leq(Zero, y) /\ Leq(y, One)
                /\ Lt(vmin, vmax) /\ Leq(x, vmin) => y.num = 0
                /\ Lt(vmin, vmax) /\ Leq(vmax, x) => y.num = y.den
                /\ Lt(vmin, vmax) /\ Lt(vmin, x) /\ Lt(x, vmax) =>
                     Mult(y, Minus(vmax, vmin)) = Minus(x, vmin)
                /\ ~Lt(vmin, vmax) => Leq(y, vmin) /\ Leq(vmin, y)
        /\ Lt(vmin, vmax) =>
             ArrMin(clipped_data).num = 0
             /\ ArrMax(clipped_data).num = clipped_data.den

\* C1 witness: the clipping cell has run on a volume whose 0.5th percentile is
\* above 0 and below its 99.5th, and a pixel was mapped strictly inside (0, 1).
C1_Witness ==
    /\ IsDefined(clipped_data)
    /\ Lt(Zero, vmin) /\ Lt(vmin, vmax)
    /\ \E y \in Pixels(clipped_data) : Lt(Zero, y) /\ Lt(y, One)

\* C2: gamma 0.5 does not lower the mean of a volume with values in [0, 1] and
\* gamma 1.5 does not raise it; both strictly when some pixel is strictly
\* between 0 and 1. (Arrays of one shape: the sums compare as the means.)
C2_GammaMeans ==
    IsDefined(gamma_low) /\ IsDefined(gamma_high) =>
        LET inner == \E x \in Pixels(data) : Lt(Zero, x) /\ Lt(x, One)
        IN /\ Leq(ArrSum(data), ArrSum(gamma_low))
           /\ Leq(ArrSum(gamma_high), ArrSum(data))
           /\ inner => Lt(ArrSum(data), ArrSum(gamma_low))
           /\ inner => Lt(ArrSum(gamma_high), ArrSum(data))

\* C2 witness: the gamma cell has run on a volume with a pixel strictly between
\* 0 and 1 and another at 0 or 1.
C2_Witness ==
    /\ IsDefined(gamma_low) /\ IsDefined(gamma_high)
    /\ \E x \in Pixels(data) : Lt(Zero, x) /\ Lt(x, One)
    /\ \E x \in Pixels(data) : x.num = 0 \/ x.num = x.den
    /\ Lt(ArrSum(gamma_high), ArrSum(gamma_low))

\* C3: with data loaded, the io.imshow cell ends with no exception escaping
\* (the cell below can run), the exception's message printed, nothing drawn,
\* and data as loaded.
C3_ImshowCaught ==
    fig.kind = "imshow" =>
        /\ err = "none"
        /\ out = InvalidShapeMsg(data.shape)
        /\ fig.panels = << >>
        /\ data = loaded

\* C3 witness: the cell has run and printed matplotlib's message for the
\* shape (60, 256, 256).
C3_Witness ==
    /\ fig.kind = "imshow"
    /\ out = <<"Invalid shape (", "6", "0", ", ", "2", "5", "6", ", ", "2", "5", "6",
               ") for image data">>

\* C4: data keeps the contents it was loaded with, and every derived array is
\* an array of its own (no memory shared with data or with another derived
\* array) of data's shape.
Derived == <<gamma_low, gamma_high, equalized_data, clipped_data>>
C4_DataImmutable ==
    /\ data = loaded
    /\ \A k \in 1..Len(Derived) :
         IsDefined(Derived[k]) =>
             /\ Derived[k].shape = data.shape
             /\ Len(Derived[k].num) = Len(data.num)
             /\ ~SharesMemory(Derived[k], data)
             /\ \A j \in 1..Len(Derived) : j # k => ~SharesMemory(Derived[k], Derived[j])

\* C4 witness: all four derived arrays exist, explore_slices has been called,
\* and the last cell drew a grid with display.
C4_Witness ==
    /\ \A k \in 1..Len(Derived) : IsDefined(Derived[k])
    /\ IsDefined(slider.vol)
    /\ fig.kind = "grid"
    /\ Len(data.num) > 1

\* C5: the slider's value is a valid plane index, and what the widget shows is
\* the plane of that value, titled "Plane <value>", with the slice marker at
\* that plane: it depends on the latest value only.
C5_SliderShowsPlane ==
    IsDefined(slider.vol) =>
        /\ slider.value \in 0..(PyLen(slider.vol) - 1)
        /\ slider.err = "none"
        /\ slider.shown.panels =
             <<Panel(View(slider.vol, <<Idx(slider.value)>>),
                     <<"Plane ">> \o Str(slider.value))>>
        /\ \A k \in 1..Len(slider.shown.marker) :
             slider.shown.marker[k][1] = slider.value

\* C5 witnesses: the initial value 34, then the slider moved to the last plane.
C5_Witness ==
    /\ IsDefined(slider.vol)
    /\ slider.value = PyLen(slider.vol) - 1
    /\ slider.shown.panels[1].title = <<"Plane ", "5", "9">>

\* C6: display(im3d, step) fills the 5 x 6 grid row by row: cell k (from 0)
\* shows plane k * step for every k < min(30, ceil(n_plane / step)), the other
\* cells stay empty, every plane shown exists and none is shown twice; a
\* 60-plane volume with step 2 fills all 30 cells with planes 0, 2, ..., 58.
GridCell(f, k) == f.axes[(k \div NCols) + 1][(k % NCols) + 1]
C6_GridPlanes ==
    fig.kind = "grid" =>
        LET n == PyLen(im3d)
            cells == NRows * NCols
            taken == Cardinality({i \in 0..(n - 1) : i % step = 0})
            m == IF taken < cells THEN taken ELSE cells
        IN /\ \A k \in 0..(cells - 1) :
                IF k < m
                THEN /\ GridCell(fig, k).image = View(im3d, <<Idx(k * step)>>)
                     /\ k * step \in 0..(n - 1)
                ELSE GridCell(fig, k) = Blank
           /\ \A j, k \in 0..(m - 1) :
                j # k => GridCell(fig, j).image # GridCell(fig, k).image
           /\ n = 60 /\ step = DefaultStep => m = 30

\* C6 witness: 60 planes, step 2: the last cell of the grid shows plane 58.
C6_Witness ==
    /\ fig.kind = "grid"
    /\ PyLen(im3d) = 60 /\ step = 2
    /\ fig.axes[NRows][NCols].image.index = <<Idx(58)>>

\* C7: every value of equalized_data lies in [0, 1].
C7_EqualizedInUnit ==
    IsDefined(equalized_data) =>
        \A y \in Pixels(equalized_data) : Leq(Zero, y) /\ Leq(y, One)

\* C7 witness: the equalization cell has run and produced a value strictly
\* inside (0, 1) and the value 1.
C7_Witness ==
    /\ IsDefined(equalized_data)
    /\ \E y \in Pixels(equalized_data) : Lt(Zero, y) /\ Lt(y, One)
    /\ \E y \in Pixels(equalized_data) : y.num = y.den

\* C8: data has three axes, (plane, row, column); unpacking its shape succeeds
\* and the three fixed-axis views are drawn, each 2D, each index within its
\* axis.
C8_ThreeAxes ==
    /\ IsDefined(data) => Len(data.shape) = 3
    /\ fig.kind = "views" =>
         /\ err = "none"
         /\ dims = data.shape
         /\ Len(fig.panels) = 3
         /\ \A k \in 1..3 :
              /\ Len(fig.panels[k].image.shape) = 2
              /\ InBounds(data.shape, fig.panels[k].image.index)
         /\ fig.panels[1].image.index = <<Idx(dims[1] \div 2)>>
         /\ fig.panels[2].image.index = <<Slice, Idx(dims[2] \div 2), Slice>>
         /\ fig.panels[3].image.index = <<Slice, Slice, Idx(dims[3] \div 2)>>

\* C8 witness: the three views of the (60, 256, 256) volume are drawn.
C8_Witness ==
    /\ fig.kind = "views"
    /\ dims = <<60, 256, 256>>
    /\ fig.panels[1].image.shape = <<256, 256>>
    /\ fig.panels[2].image.shape = <<60, 256>>
    /\ fig.panels[3].title = <<"Column = ", "1", "2", "8">>

\* C9: whatever the order and number of runs of the gamma, equalization and
\* clipping cells, each result that exists has the value one top-to-bottom
\* run gives it: the cell's function of the volume as loaded.
C9_OrderIndependent ==
    /\ IsDefined(gamma_low) => gamma_low = adjust_gamma(loaded, GammaLowHalves)
    /\ IsDefined(gamma_high) => gamma_high = adjust_gamma(loaded, GammaHighHalves)
    /\ IsDefined(equalized_data) => equalized_data = equalize_hist(loaded)
    /\ IsDefined(clipped_data) =>
         /\ vmin = percentile(loaded, QLow)
         /\ vmax = percentile(loaded, QHigh)
         /\ clipped_data = rescale_intensity(loaded, vmin, vmax, "float32")

\* C9 witness: the gamma cell ran last, after the equalization and clipping
\* cells below it, on a volume of several values.
C9_Witness ==
    /\ fig.kind = "gamma"
    /\ IsDefined(equalized_data) /\ IsDefined(clipped_data)
    /\ Cardinality(Range(data.num)) > 2

\* C10: the slice marker spans the rows and columns of the wireframe cube and
\* lies within it along the plane axis.
Extent(verts, axis) == {verts[k][axis] : k \in 1..Len(verts)}
====
